---------------------------- MODULE Spec2Model ----------------------------
(***************************************************************************)
(* Streaming classification metrics of rust_metrics: the stat-score        *)
(* accumulators, the metrics derived from them, the accuracy and hinge     *)
(* accumulators and the dual-mode AUROC estimator.                         *)
(*                                                                         *)
(* One behaviour drives one metric instance: Init is the instance after    *)
(* new(...), every action is one call of update or reset on it.  Spec      *)
(* offers every batch, valid or not, to every call; SpecFeed fixes a       *)
(* dataset of valid samples and feeds it front to back.                    *)
(*                                                                         *)
(* f64 scores are grid points n / ScoreUnit, held as the integer n, so     *)
(* 0.0 is 0 and 1.0 is ScoreUnit; values below 0 or above ScoreUnit are    *)
(* the out-of-range scores.  f64 results are exact rationals <<num, den>>  *)
(* or the IEEE specials NaN / Inf produced by a division by zero.          *)
(***************************************************************************)
EXTENDS Integers, Sequences, FiniteSets, TLC

\* ------------------------------------------------------------------ bounds
MaxBatch == 2      \* longest slice handed to one update call
MaxTotal == 3      \* updates are offered while total + batch <= MaxTotal

\* the f64 literal 1.0 that closes the score range, in grid units: the grid
\* step is 1e-6, fine enough to put two distinct scores into one of 100000 bins
ScoreUnit == 1000000

Half == ScoreUnit \div 2

VARIABLES
    metric,     \* which accumulator type this instance is
    self,       \* the fields of the instance
    cfg,        \* the arguments new(...) was called with
    call,       \* the last call: op, predictions.len(), targets.len()
    result,     \* what the last call returned
    observed,   \* samples folded into the AUROC accumulator since new/reset
    data        \* the dataset a SpecFeed behaviour feeds to the instance

vars == <<metric, self, cfg, call, result, observed, data>>

\* ------------------------------------------------------------ MetricError
Ok == [tag |-> "Ok"]

LengthMismatch(p, t) == [tag |-> "LengthMismatch", predictions |-> p, targets |-> t]

\* the expected / got texts carry no information the callers branch on
IncompatibleInput == [tag |-> "IncompatibleInput"]

InvalidClassIndex(class, num_classes) ==
    [tag |-> "InvalidClassIndex", class |-> class, num_classes |-> num_classes]

InvalidLabelShape(total_labels, num_labels) ==
    [tag |-> "InvalidLabelShape", total_labels |-> total_labels, num_labels |-> num_labels]

IsErr(r) == r.tag # "Ok"

\* -------------------------------------------------------------- validation
\* mutant: the lower end of the range is not checked
verify_range_upper_only(input, min, max) == input <= max

verify_range(input, min, max) == min <= input /\ input <= max

verify_label(input, num_classes) == input < num_classes

verify_binary_label(input) == verify_label(input, 2)

\* ------------------------------------------------------- BinaryStatScores
BinaryStatScoresNew(threshold) ==
    [true_positive |-> 0, false_positive |-> 0, false_negative |-> 0,
     true_negative |-> 0, total |-> 0, threshold |-> threshold]

\* mutant: total += 1 written inside the predicted-positive arms only
BinaryStatScoresCountTotalInArm(s, prediction, target) ==
    LET predicted == prediction > s.threshold
        actual == target = 1
    IN IF predicted /\ actual
            THEN [s EXCEPT !.true_positive = @ + 1, !.total = @ + 1]
       ELSE IF predicted /\ ~actual
            THEN [s EXCEPT !.false_positive = @ + 1, !.total = @ + 1]
       ELSE IF ~predicted /\ actual
            THEN [s EXCEPT !.false_negative = @ + 1]
       ELSE [s EXCEPT !.true_negative = @ + 1]

\* mutant: predicted positive when prediction >= threshold
BinaryStatScoresCountAtThreshold(s, prediction, target) ==
    LET predicted == prediction >= s.threshold
        actual == target = 1
        s1 == IF predicted /\ actual
                THEN [s EXCEPT !.true_positive = @ + 1]
              ELSE IF predicted /\ ~actual
                THEN [s EXCEPT !.false_positive = @ + 1]
              ELSE IF ~predicted /\ actual
                THEN [s EXCEPT !.false_negative = @ + 1]
              ELSE [s EXCEPT !.true_negative = @ + 1]
    IN [s1 EXCEPT !.total = @ + 1]

\* mutant: the prediction is compared with 0.0 instead of the threshold
BinaryStatScoresCountIgnoresThreshold(s, prediction, target) ==
    LET predicted == prediction > 0
        actual == target = 1
        s1 == IF predicted /\ actual
                THEN [s EXCEPT !.true_positive = @ + 1]
              ELSE IF predicted /\ ~actual
                THEN [s EXCEPT !.false_positive = @ + 1]
              ELSE IF ~predicted /\ actual
                THEN [s EXCEPT !.false_negative = @ + 1]
              ELSE [s EXCEPT !.true_negative = @ + 1]
    IN [s1 EXCEPT !.total = @ + 1]

\* one iteration of the loop body after validation (stat_scores.rs 45-55)
BinaryStatScoresCount(s, prediction, target) ==
    LET predicted == prediction > s.threshold
        actual == target = 1
        s1 == IF predicted /\ actual
                THEN [s EXCEPT !.true_positive = @ + 1]
              ELSE IF predicted /\ ~actual
                THEN [s EXCEPT !.false_positive = @ + 1]
              ELSE IF ~predicted /\ actual
                THEN [s EXCEPT !.false_negative = @ + 1]
              ELSE [s EXCEPT !.true_negative = @ + 1]
    IN [s1 EXCEPT !.total = @ + 1]

RECURSIVE BinaryStatScoresLoop(_, _, _, _)
BinaryStatScoresLoop(s, predictions, targets, i) ==
    IF i > Len(predictions) THEN [self |-> s, result |-> Ok]
    ELSE IF ~verify_range(predictions[i], 0, ScoreUnit)
        THEN [self |-> s, result |-> IncompatibleInput]
    ELSE IF ~verify_binary_label(targets[i])
        THEN [self |-> s, result |-> IncompatibleInput]
    ELSE BinaryStatScoresLoop(BinaryStatScoresCount(s, predictions[i], targets[i]),
                              predictions, targets, i + 1)

\* mutant: every call starts from zeroed counters
BinaryStatScoresUpdateFromZero(s, predictions, targets) ==
    IF Len(predictions) # Len(targets)
        THEN [self |-> s, result |-> LengthMismatch(Len(predictions), Len(targets))]
    ELSE BinaryStatScoresLoop(BinaryStatScoresNew(s.threshold), predictions, targets, 1)

BinaryStatScoresUpdate(s, predictions, targets) ==
    IF Len(predictions) # Len(targets)
        THEN [self |-> s, result |-> LengthMismatch(Len(predictions), Len(targets))]
    ELSE BinaryStatScoresLoop(s, predictions, targets, 1)

BinaryStatScoresReset(s) ==
    [s EXCEPT !.true_positive = 0, !.false_positive = 0, !.false_negative = 0,
              !.true_negative = 0, !.total = 0]

\* --------------------------------------------------- MulticlassStatScores
\* vec![0; n]
ZeroVec(n) == [k \in 0 .. n - 1 |-> 0]

MulticlassStatScoresNew(num_classes) ==
    [true_positive |-> ZeroVec(num_classes), false_positive |-> ZeroVec(num_classes),
     false_negative |-> ZeroVec(num_classes), true_negative |-> ZeroVec(num_classes),
     total_per_class |-> ZeroVec(num_classes), total |-> 0, num_classes |-> num_classes]

\* a prediction row is a function on 0 .. len-1
RowLen(row) == Cardinality(DOMAIN row)

\* mutant: the earlier element is kept when the comparison says Equal
RECURSIVE MaxByFromKeepsFirst(_, _, _)
MaxByFromKeepsFirst(row, best, i) ==
    IF i >= RowLen(row) THEN best
    ELSE IF row[best] >= row[i] THEN MaxByFromKeepsFirst(row, best, i + 1)
    ELSE MaxByFromKeepsFirst(row, i, i + 1)

\* Iterator::max_by keeps the later element when the comparison says Equal,
\* so the index returned is the one of the last maximum of the row
RECURSIVE MaxByFrom(_, _, _)
MaxByFrom(row, best, i) ==
    IF i >= RowLen(row) THEN best
    ELSE IF row[best] > row[i] THEN MaxByFrom(row, best, i + 1)
    ELSE MaxByFrom(row, i, i + 1)

ArgMax(row) == MaxByFrom(row, 0, 1)

\* mutant: the final else arm (true_negative) is missing
MulticlassStatScoresCountNoTrueNegative(s, prediction_idx, target) ==
    LET tpHit(k) == k = target /\ k = prediction_idx
        fnHit(k) == k = target /\ k # prediction_idx
        fpHit(k) == k # target /\ k = prediction_idx
        bump(v, hit(_)) == [k \in 0 .. s.num_classes - 1 |->
                               IF hit(k) THEN v[k] + 1 ELSE v[k]]
        always(k) == TRUE
    IN [s EXCEPT !.true_positive = bump(@, tpHit),
                 !.false_negative = bump(@, fnHit),
                 !.false_positive = bump(@, fpHit),
                 !.total_per_class = bump(@, always),
                 !.total = @ + 1]

\* mutant: false_positive and false_negative change places
MulticlassStatScoresCountSwapsFalse(s, prediction_idx, target) ==
    LET tpHit(k) == k = target /\ k = prediction_idx
        fnHit(k) == k = target /\ k # prediction_idx
        fpHit(k) == k # target /\ k = prediction_idx
        tnHit(k) == k # target /\ k # prediction_idx
        bump(v, hit(_)) == [k \in 0 .. s.num_classes - 1 |->
                               IF hit(k) THEN v[k] + 1 ELSE v[k]]
        always(k) == TRUE
    IN [s EXCEPT !.true_positive = bump(@, tpHit),
                 !.false_negative = bump(@, fpHit),
                 !.false_positive = bump(@, fnHit),
                 !.true_negative = bump(@, tnHit),
                 !.total_per_class = bump(@, always),
                 !.total = @ + 1]

\* mutant: every class other than the target counts a false positive
MulticlassStatScoresCountEveryOther(s, prediction_idx, target) ==
    LET tpHit(k) == k = target /\ k = prediction_idx
        fnHit(k) == k = target /\ k # prediction_idx
        fpHit(k) == k # target
        tnHit(k) == k # target /\ k # prediction_idx
        bump(v, hit(_)) == [k \in 0 .. s.num_classes - 1 |->
                               IF hit(k) THEN v[k] + 1 ELSE v[k]]
        always(k) == TRUE
    IN [s EXCEPT !.true_positive = bump(@, tpHit),
                 !.false_negative = bump(@, fnHit),
                 !.false_positive = bump(@, fpHit),
                 !.true_negative = bump(@, tnHit),
                 !.total_per_class = bump(@, always),
                 !.total = @ + 1]

\* the inner loop over class_idx for one validated sample (stat_scores.rs 121-136)
MulticlassStatScoresCount(s, prediction_idx, target) ==
    LET tpHit(k) == k = target /\ k = prediction_idx
        fnHit(k) == k = target /\ k # prediction_idx
        fpHit(k) == k # target /\ k = prediction_idx
        tnHit(k) == k # target /\ k # prediction_idx
        bump(v, hit(_)) == [k \in 0 .. s.num_classes - 1 |->
                               IF hit(k) THEN v[k] + 1 ELSE v[k]]
        always(k) == TRUE
    IN [s EXCEPT !.true_positive = bump(@, tpHit),
                 !.false_negative = bump(@, fnHit),
                 !.false_positive = bump(@, fpHit),
                 !.true_negative = bump(@, tnHit),
                 !.total_per_class = bump(@, always),
                 !.total = @ + 1]

RECURSIVE MulticlassStatScoresLoop(_, _, _, _)
MulticlassStatScoresLoop(s, predictions, targets, i) ==
    IF i > Len(predictions) THEN [self |-> s, result |-> Ok]
    ELSE IF ~verify_label(targets[i], s.num_classes)
        THEN [self |-> s, result |-> IncompatibleInput]
    ELSE IF RowLen(predictions[i]) # s.num_classes
        THEN [self |-> s, result |-> IncompatibleInput]
    ELSE MulticlassStatScoresLoop(
            MulticlassStatScoresCount(s, ArgMax(predictions[i]), targets[i]),
            predictions, targets, i + 1)

MulticlassStatScoresUpdate(s, predictions, targets) ==
    IF Len(predictions) # Len(targets)
        THEN [self |-> s, result |-> LengthMismatch(Len(predictions), Len(targets))]
    ELSE MulticlassStatScoresLoop(s, predictions, targets, 1)

\* mutant: reset forgets total_per_class
MulticlassStatScoresResetKeepsPerClass(s) ==
    [s EXCEPT !.true_positive = ZeroVec(s.num_classes),
              !.false_positive = ZeroVec(s.num_classes),
              !.false_negative = ZeroVec(s.num_classes),
              !.true_negative = ZeroVec(s.num_classes),
              !.total = 0]

MulticlassStatScoresReset(s) ==
    [s EXCEPT !.true_positive = ZeroVec(s.num_classes),
              !.false_positive = ZeroVec(s.num_classes),
              !.false_negative = ZeroVec(s.num_classes),
              !.true_negative = ZeroVec(s.num_classes),
              !.total_per_class = ZeroVec(s.num_classes),
              !.total = 0]

\* ------------------------------------------------------------ BinaryAuroc
\* A histogram (Vec<u64> of `bins` counters) is held as its non-zero entries:
\* a function from the bins that were hit to their counts.  vec![0; bins] is
\* the empty function and a bin outside the domain holds 0, so a histogram
\* of 100000 bins costs no more than one of 2.
EmptyHist == [k \in {} |-> 0]

\* hist[k] += 1
HistRaise(hist, k) ==
    [j \in DOMAIN hist \cup {k} |->
        IF j = k THEN (IF k \in DOMAIN hist THEN hist[k] + 1 ELSE 1) ELSE hist[j]]

\* hist.iter().sum()
RECURSIVE HistSum(_)
HistSum(hist) ==
    IF DOMAIN hist = {} THEN 0
    ELSE LET k == CHOOSE j \in DOMAIN hist : TRUE
         IN hist[k] + HistSum([j \in DOMAIN hist \ {k} |-> hist[j]])

\* BinaryAuroc::new: 0 selects Exact, 1 panics, anything larger selects Binned
BinaryAurocNew(bins) ==
    IF bins = 0 THEN [mode |-> "Exact", samples |-> <<>>]
    ELSE [mode |-> "Binned", bins |-> bins,
          pos_hist |-> EmptyHist, neg_hist |-> EmptyHist]

\* mutant: the product is truncated instead of rounded
BinIndexTruncates(prediction, bins) == (prediction * (bins - 1)) \div ScoreUnit

\* ((prediction * max_bin_idx).round()) as usize for a score already known to
\* be in [0, 1]: f64::round rounds half away from zero
BinIndex(prediction, bins) ==
    (2 * prediction * (bins - 1) + ScoreUnit) \div (2 * ScoreUnit)

RECURSIVE BinaryAurocExactLoop(_, _, _, _)
BinaryAurocExactLoop(s, predictions, targets, i) ==
    IF i > Len(predictions) THEN [self |-> s, result |-> Ok]
    ELSE IF ~verify_range(predictions[i], 0, ScoreUnit)
        THEN [self |-> s, result |-> IncompatibleInput]
    ELSE IF ~verify_binary_label(targets[i])
        THEN [self |-> s, result |-> IncompatibleInput]
    ELSE BinaryAurocExactLoop(
            [s EXCEPT !.samples = Append(@, <<predictions[i], targets[i] = 1>>)],
            predictions, targets, i + 1)

RECURSIVE BinaryAurocBinnedLoop(_, _, _, _)
BinaryAurocBinnedLoop(s, predictions, targets, i) ==
    IF i > Len(predictions) THEN [self |-> s, result |-> Ok]
    ELSE IF ~verify_range(predictions[i], 0, ScoreUnit)
        THEN [self |-> s, result |-> IncompatibleInput]
    ELSE IF ~verify_binary_label(targets[i])
        THEN [self |-> s, result |-> IncompatibleInput]
    ELSE LET bin_index == BinIndex(predictions[i], s.bins)
         IN BinaryAurocBinnedLoop(
                IF targets[i] = 1
                    THEN [s EXCEPT !.pos_hist = HistRaise(@, bin_index)]
                    ELSE [s EXCEPT !.neg_hist = HistRaise(@, bin_index)],
                predictions, targets, i + 1)

BinaryAurocUpdate(s, predictions, targets) ==
    IF Len(predictions) # Len(targets)
        THEN [self |-> s, result |-> LengthMismatch(Len(predictions), Len(targets))]
    ELSE IF s.mode = "Exact" THEN BinaryAurocExactLoop(s, predictions, targets, 1)
    ELSE BinaryAurocBinnedLoop(s, predictions, targets, 1)

\* mutant: the binned arm clears pos_hist and leaves neg_hist
BinaryAurocResetKeepsNegHist(s) ==
    IF s.mode = "Exact" THEN [s EXCEPT !.samples = <<>>]
    ELSE [s EXCEPT !.pos_hist = EmptyHist]

BinaryAurocReset(s) ==
    IF s.mode = "Exact" THEN [s EXCEPT !.samples = <<>>]
    ELSE [s EXCEPT !.pos_hist = EmptyHist, !.neg_hist = EmptyHist]

\* --------------------------------------------------------------- accuracy
BinaryAccuracyNew == [correct |-> 0, total |-> 0]

\* the loop of BinaryAccuracy::update; total was already raised by the caller
RECURSIVE BinaryAccuracyLoop(_, _, _, _)
BinaryAccuracyLoop(s, predictions, targets, i) ==
    IF i > Len(predictions) THEN [self |-> s, result |-> Ok]
    ELSE IF predictions[i] > 1 \/ targets[i] > 1
        THEN [self |-> s, result |-> IncompatibleInput]
    ELSE BinaryAccuracyLoop(
            IF predictions[i] = targets[i] THEN [s EXCEPT !.correct = @ + 1] ELSE s,
            predictions, targets, i + 1)

\* mutant: total is raised before the lengths are compared
BinaryAccuracyUpdateCountsFirst(s, predictions, targets) ==
    IF Len(predictions) # Len(targets)
        THEN [self |-> [s EXCEPT !.total = @ + Len(predictions)],
              result |-> LengthMismatch(Len(predictions), Len(targets))]
    ELSE BinaryAccuracyLoop([s EXCEPT !.total = @ + Len(predictions)],
                            predictions, targets, 1)

BinaryAccuracyUpdate(s, predictions, targets) ==
    IF Len(predictions) # Len(targets)
        THEN [self |-> s, result |-> LengthMismatch(Len(predictions), Len(targets))]
    ELSE BinaryAccuracyLoop([s EXCEPT !.total = @ + Len(predictions)],
                            predictions, targets, 1)

AccuracyReset(s) == [s EXCEPT !.correct = 0, !.total = 0]

MulticlassAccuracyNew(num_classes) ==
    [num_classes |-> num_classes, correct |-> 0, total |-> 0]

\* the validating loop of MulticlassAccuracy::update: an error, or batch_correct
RECURSIVE MulticlassAccuracyLoop(_, _, _, _, _)
MulticlassAccuracyLoop(s, predictions, targets, i, batch_correct) ==
    IF i > Len(predictions) THEN [err |-> Ok, batch_correct |-> batch_correct]
    ELSE IF predictions[i] >= s.num_classes
        THEN [err |-> InvalidClassIndex(predictions[i], s.num_classes),
              batch_correct |-> batch_correct]
    ELSE IF targets[i] >= s.num_classes
        THEN [err |-> InvalidClassIndex(targets[i], s.num_classes),
              batch_correct |-> batch_correct]
    ELSE MulticlassAccuracyLoop(s, predictions, targets, i + 1,
            IF predictions[i] = targets[i] THEN batch_correct + 1 ELSE batch_correct)

MulticlassAccuracyUpdate(s, predictions, targets) ==
    IF Len(predictions) # Len(targets)
        THEN [self |-> s, result |-> LengthMismatch(Len(predictions), Len(targets))]
    ELSE LET r == MulticlassAccuracyLoop(s, predictions, targets, 1, 0)
         IN IF IsErr(r.err) THEN [self |-> s, result |-> r.err]
            ELSE [self |-> [s EXCEPT !.total = @ + Len(predictions),
                                     !.correct = @ + r.batch_correct],
                  result |-> Ok]

MultilabelAccuracyNew(num_labels) ==
    [num_labels |-> num_labels, correct |-> 0, total |-> 0]

MultilabelAccuracyUpdate(s, predictions, targets) ==
    IF Len(predictions) # Len(targets)
        THEN [self |-> s, result |-> LengthMismatch(Len(predictions), Len(targets))]
    ELSE IF Len(predictions) % s.num_labels # 0
        THEN [self |-> s, result |-> InvalidLabelShape(Len(predictions), s.num_labels)]
    ELSE [self |-> [s EXCEPT
              !.total = @ + Len(predictions),
              !.correct = @ + Cardinality({i \in 1 .. Len(predictions) :
                                              predictions[i] = targets[i]})],
          result |-> Ok]

\* ------------------------------------------------------------- f64 values
\* A value compute() can return: an exact rational in lowest terms, or the
\* IEEE special a division by zero leaves behind.
NaN == [kind |-> "NaN"]

Inf == [kind |-> "Inf"]

RECURSIVE Gcd(_, _)
Gcd(a, b) == IF b = 0 THEN a ELSE Gcd(b, a % b)

\* n / d for integers n >= 0, d > 0
Num(n, d) == LET g == Gcd(n, d) IN [kind |-> "Num", num |-> n \div g, den |-> d \div g]

IsZero(x) == x.kind = "Num" /\ x.num = 0

FAdd(x, y) ==
    IF x.kind = "NaN" \/ y.kind = "NaN" THEN NaN
    ELSE IF x.kind = "Inf" \/ y.kind = "Inf" THEN Inf
    ELSE Num(x.num * y.den + y.num * x.den, x.den * y.den)

FMul(x, y) ==
    IF x.kind = "NaN" \/ y.kind = "NaN" THEN NaN
    ELSE IF x.kind = "Inf" \/ y.kind = "Inf"
        THEN (IF IsZero(x) \/ IsZero(y) THEN NaN ELSE Inf)
    ELSE Num(x.num * y.num, x.den * y.den)

FDiv(x, y) ==
    IF x.kind = "NaN" \/ y.kind = "NaN" THEN NaN
    ELSE IF x.kind = "Inf" THEN (IF y.kind = "Inf" THEN NaN ELSE Inf)
    ELSE IF y.kind = "Inf" THEN Num(0, 1)
    ELSE IF y.num = 0 THEN (IF x.num = 0 THEN NaN ELSE Inf)
    ELSE Num(x.num * y.den, x.den * y.num)

\* `n as f64`
F(n) == Num(n, 1)

\* Option<Output>
None == [tag |-> "None"]

Some(v) == [tag |-> "Some", value |-> v]

\* ------------------------------------------------------------- hinge loss
\* measures is an f64 sum, held as an exact rational
Max(a, b) == IF a >= b THEN a ELSE b

BinaryHingeLossNew(squared) == [squared |-> squared, measures |-> F(0), total |-> 0]

\* (1.0 - prediction * y).max(0.0), squared on request
BinaryHingeMeasure(squared, prediction, target) ==
    LET y == IF target = 1 THEN 1 ELSE -1
        measure == Num(Max(ScoreUnit - prediction * y, 0), ScoreUnit)
    IN IF squared THEN FMul(measure, measure) ELSE measure

\* the loop of BinaryHingeLoss::update; total was already raised by the caller
RECURSIVE BinaryHingeLossLoop(_, _, _, _)
BinaryHingeLossLoop(s, predictions, targets, i) ==
    IF i > Len(predictions) THEN [self |-> s, result |-> Ok]
    ELSE IF ~verify_range(predictions[i], 0, ScoreUnit)
        THEN [self |-> s, result |-> IncompatibleInput]
    ELSE IF ~verify_binary_label(targets[i])
        THEN [self |-> s, result |-> IncompatibleInput]
    ELSE BinaryHingeLossLoop(
            [s EXCEPT !.measures =
                FAdd(@, BinaryHingeMeasure(s.squared, predictions[i], targets[i]))],
            predictions, targets, i + 1)

BinaryHingeLossUpdate(s, predictions, targets) ==
    IF Len(predictions) # Len(targets)
        THEN [self |-> s, result |-> LengthMismatch(Len(predictions), Len(targets))]
    ELSE BinaryHingeLossLoop([s EXCEPT !.total = @ + Len(predictions)],
                             predictions, targets, 1)

HingeLossReset(s) == [s EXCEPT !.measures = F(0), !.total = 0]

MulticlassHingeLossNew(num_classes, squared) ==
    [num_classes |-> num_classes, squared |-> squared, measures |-> F(0), total |-> 0]

\* the scan of one row: the first out-of-range score stops it, otherwise it
\* yields the largest score at an index other than target (starting at -1.0)
RECURSIVE MaxOtherScore(_, _, _, _)
MaxOtherScore(row, target, i, max_other_score) ==
    IF i >= RowLen(row) THEN [err |-> Ok, max_other_score |-> max_other_score]
    ELSE IF ~verify_range(row[i], 0, ScoreUnit)
        THEN [err |-> IncompatibleInput, max_other_score |-> max_other_score]
    ELSE IF i = target THEN MaxOtherScore(row, target, i + 1, max_other_score)
    ELSE MaxOtherScore(row, target, i + 1, Max(max_other_score, row[i]))

RECURSIVE MulticlassHingeLossLoop(_, _, _, _)
MulticlassHingeLossLoop(s, predictions, targets, i) ==
    IF i > Len(predictions) THEN [self |-> s, result |-> Ok]
    ELSE IF RowLen(predictions[i]) # s.num_classes
        THEN [self |-> s,
              result |-> LengthMismatch(RowLen(predictions[i]), s.num_classes)]
    ELSE IF ~verify_label(targets[i], s.num_classes)
        THEN [self |-> s, result |-> IncompatibleInput]
    ELSE LET true_score == predictions[i][targets[i]]
             scan == MaxOtherScore(predictions[i], targets[i], 0, -ScoreUnit)
             loss == Num(Max(ScoreUnit - true_score + scan.max_other_score, 0),
                         ScoreUnit)
         IN IF IsErr(scan.err) THEN [self |-> s, result |-> scan.err]
            ELSE MulticlassHingeLossLoop(
                    [s EXCEPT !.measures = FAdd(@, IF s.squared THEN FMul(loss, loss)
                                                   ELSE loss),
                              !.total = @ + 1],
                    predictions, targets, i + 1)

MulticlassHingeLossUpdate(s, predictions, targets) ==
    IF Len(predictions) # Len(targets)
        THEN [self |-> s, result |-> LengthMismatch(Len(predictions), Len(targets))]
    ELSE MulticlassHingeLossLoop(s, predictions, targets, 1)

\* ------------------------------------------- metrics over BinaryStatScores
BinaryPrecisionCompute(s) ==
    IF s.total = 0 THEN None
    ELSE Some(FDiv(F(s.true_positive), F(s.true_positive + s.false_positive)))

BinaryRecallCompute(s) ==
    IF s.total = 0 THEN None
    ELSE Some(FDiv(F(s.true_positive), F(s.true_positive + s.false_negative)))

BinaryF1ScoreCompute(s) ==
    IF s.total = 0 THEN None
    ELSE LET precision == FDiv(F(s.true_positive), F(s.true_positive + s.false_positive))
             recall == FDiv(F(s.true_positive), F(s.true_positive + s.false_negative))
         IN Some(FDiv(FMul(FMul(F(2), precision), recall), FAdd(precision, recall)))

BinaryJaccardIndexCompute(s) ==
    IF s.total = 0 THEN None
    ELSE LET denom == s.true_positive + s.false_positive + s.false_negative
         IN IF denom = 0 THEN None
            ELSE Some(FDiv(F(s.true_positive), F(denom)))

BinaryConfusionMatrixCompute(s) ==
    IF s.total = 0 THEN None
    ELSE Some(<< <<s.true_positive, s.false_positive>>,
                 <<s.false_negative, s.true_negative>> >>)

\* ------------------------------------------------ accuracy, hinge: compute
BinaryAccuracyCompute(s) ==
    IF s.total = 0 THEN None ELSE Some(FDiv(F(s.correct), F(s.total)))

MulticlassAccuracyCompute(s) ==
    IF s.total = 0 THEN None ELSE Some(FDiv(F(s.correct), F(s.total)))

MultilabelAccuracyCompute(s) ==
    IF s.total = 0 THEN None ELSE Some(FDiv(F(s.correct), F(s.total)))

BinaryHingeLossCompute(s) ==
    IF s.total = 0 THEN None
    ELSE Some(FDiv(s.measures, F(s.total)))

MulticlassHingeLossCompute(s) ==
    IF s.total = 0 THEN None
    ELSE Some(FDiv(s.measures, F(s.total)))

\* --------------------------------------- metrics over MulticlassStatScores
\* v.iter().sum() over a per-class vector of length n
RECURSIVE SumVec(_, _)
SumVec(v, n) == IF n = 0 THEN 0 ELSE SumVec(v, n - 1) + v[n - 1]

\* MulticlassPrecision, Macro: the (sum, count) pair after classes 0 .. i-1
RECURSIVE PrecisionMacroLoop(_, _)
PrecisionMacroLoop(s, i) ==
    IF i = 0 THEN [sum |-> F(0), count |-> 0]
    ELSE LET acc == PrecisionMacroLoop(s, i - 1)
             denom == s.true_positive[i - 1] + s.false_positive[i - 1]
         IN IF denom > 0
                THEN [sum |-> FAdd(acc.sum, FDiv(F(s.true_positive[i - 1]), F(denom))),
                      count |-> acc.count + 1]
            ELSE acc

\* MulticlassPrecision, Weighted: (numerator, denom_total) after classes 0 .. i-1
RECURSIVE PrecisionWeightedLoop(_, _)
PrecisionWeightedLoop(s, i) ==
    IF i = 0 THEN [numerator |-> F(0), denom_total |-> F(0)]
    ELSE LET acc == PrecisionWeightedLoop(s, i - 1)
             denom == s.true_positive[i - 1] + s.false_positive[i - 1]
             support == F(s.total_per_class[i - 1])
         IN IF denom > 0
                THEN [numerator |-> FAdd(acc.numerator,
                          FMul(support, FDiv(F(s.true_positive[i - 1]), F(denom)))),
                      denom_total |-> FAdd(acc.denom_total, support)]
            ELSE acc

MulticlassPrecisionCompute(s, average_method) ==
    IF s.total = 0 THEN None
    ELSE IF average_method = "Micro" THEN
        LET total_tp == SumVec(s.true_positive, s.num_classes)
            total_fp == SumVec(s.false_positive, s.num_classes)
        IN IF total_tp + total_fp = 0 THEN None
           ELSE Some(FDiv(F(total_tp), F(total_tp + total_fp)))
    ELSE IF average_method = "Macro" THEN
        LET acc == PrecisionMacroLoop(s, s.num_classes)
        IN IF acc.count = 0 THEN None ELSE Some(FDiv(acc.sum, F(acc.count)))
    ELSE
        LET acc == PrecisionWeightedLoop(s, s.num_classes)
        IN IF IsZero(acc.denom_total) THEN None
           ELSE Some(FDiv(acc.numerator, acc.denom_total))

\* MulticlassF1Score, Macro: the (sum, count) pair after classes 0 .. i-1
RECURSIVE F1MacroLoop(_, _)
F1MacroLoop(s, i) ==
    IF i = 0 THEN [sum |-> F(0), count |-> 0]
    ELSE LET acc == F1MacroLoop(s, i - 1)
             denom == 2 * s.true_positive[i - 1] + s.false_positive[i - 1]
                        + s.false_negative[i - 1]
         IN IF denom > 0
                THEN [sum |-> FAdd(acc.sum,
                          FDiv(FMul(F(2), F(s.true_positive[i - 1])), F(denom))),
                      count |-> acc.count + 1]
            ELSE acc

\* MulticlassF1Score, Weighted: (weighted_sum, support_sum) after classes 0 .. i-1
RECURSIVE F1WeightedLoop(_, _)
F1WeightedLoop(s, i) ==
    IF i = 0 THEN [weighted_sum |-> F(0), support_sum |-> 0]
    ELSE LET acc == F1WeightedLoop(s, i - 1)
             denom == 2 * s.true_positive[i - 1] + s.false_positive[i - 1]
                        + s.false_negative[i - 1]
             support == s.true_positive[i - 1] + s.false_negative[i - 1]
         IN IF denom > 0 /\ support > 0
                THEN LET f1_i == FDiv(FMul(F(2), F(s.true_positive[i - 1])), F(denom))
                     IN [weighted_sum |-> FAdd(acc.weighted_sum, FMul(f1_i, F(support))),
                         support_sum |-> acc.support_sum + support]
            ELSE acc

\* mutant: the Micro denominator counts the true positives once
MulticlassF1ScoreComputeSingleTp(s, average_method) ==
    IF s.total = 0 THEN None
    ELSE IF average_method = "Micro" THEN
        LET total_tp == SumVec(s.true_positive, s.num_classes)
            total_fp == SumVec(s.false_positive, s.num_classes)
            total_fn == SumVec(s.false_negative, s.num_classes)
            denom == total_tp + total_fp + total_fn
        IN IF denom = 0 THEN None
           ELSE Some(FDiv(FMul(F(2), F(total_tp)), F(denom)))
    ELSE IF average_method = "Macro" THEN
        LET acc == F1MacroLoop(s, s.num_classes)
        IN IF acc.count = 0 THEN None ELSE Some(FDiv(acc.sum, F(acc.count)))
    ELSE
        LET acc == F1WeightedLoop(s, s.num_classes)
        IN IF acc.support_sum = 0 THEN None
           ELSE Some(FDiv(acc.weighted_sum, F(acc.support_sum)))

MulticlassF1ScoreCompute(s, average_method) ==
    IF s.total = 0 THEN None
    ELSE IF average_method = "Micro" THEN
        LET total_tp == SumVec(s.true_positive, s.num_classes)
            total_fp == SumVec(s.false_positive, s.num_classes)
            total_fn == SumVec(s.false_negative, s.num_classes)
            denom == 2 * total_tp + total_fp + total_fn
        IN IF denom = 0 THEN None
           ELSE Some(FDiv(FMul(F(2), F(total_tp)), F(denom)))
    ELSE IF average_method = "Macro" THEN
        LET acc == F1MacroLoop(s, s.num_classes)
        IN IF acc.count = 0 THEN None ELSE Some(FDiv(acc.sum, F(acc.count)))
    ELSE
        LET acc == F1WeightedLoop(s, s.num_classes)
        IN IF acc.support_sum = 0 THEN None
           ELSE Some(FDiv(acc.weighted_sum, F(acc.support_sum)))

\* mutant: the Macro loop starts at class 1
RECURSIVE JaccardMacroLoopSkipsFirst(_, _)
JaccardMacroLoopSkipsFirst(s, i) ==
    IF i <= 1 THEN F(0)
    ELSE LET denom == s.true_positive[i - 1] + s.false_positive[i - 1]
                        + s.false_negative[i - 1]
             class_jaccard == FDiv(F(s.true_positive[i - 1]), F(denom))
         IN FAdd(JaccardMacroLoopSkipsFirst(s, i - 1), class_jaccard)

\* MulticlassJaccardIndex, Macro: jaccard_sum after classes 0 .. i-1
RECURSIVE JaccardMacroLoop(_, _)
JaccardMacroLoop(s, i) ==
    IF i = 0 THEN F(0)
    ELSE LET denom == s.true_positive[i - 1] + s.false_positive[i - 1]
                        + s.false_negative[i - 1]
             class_jaccard == FDiv(F(s.true_positive[i - 1]), F(denom))
         IN FAdd(JaccardMacroLoop(s, i - 1), class_jaccard)

\* MulticlassJaccardIndex, Weighted: (weighted_sum, total_support) after 0 .. i-1
RECURSIVE JaccardWeightedLoop(_, _)
JaccardWeightedLoop(s, i) ==
    IF i = 0 THEN [weighted_sum |-> F(0), total_support |-> 0]
    ELSE LET acc == JaccardWeightedLoop(s, i - 1)
             support == s.true_positive[i - 1] + s.false_negative[i - 1]
             denom == s.true_positive[i - 1] + s.false_positive[i - 1]
                        + s.false_negative[i - 1]
             class_jaccard == FDiv(F(s.true_positive[i - 1]), F(denom))
         IN [weighted_sum |-> FAdd(acc.weighted_sum, FMul(class_jaccard, F(support))),
             total_support |-> acc.total_support + support]

MulticlassJaccardIndexCompute(s, average_method) ==
    IF s.total = 0 THEN None
    ELSE IF average_method = "Micro" THEN
        LET tp_sum == SumVec(s.true_positive, s.num_classes)
            fp_sum == SumVec(s.false_positive, s.num_classes)
            fn_sum == SumVec(s.false_negative, s.num_classes)
            denom == tp_sum + fp_sum + fn_sum
        IN Some(FDiv(F(tp_sum), F(denom)))
    ELSE IF average_method = "Macro" THEN
        Some(FDiv(JaccardMacroLoop(s, s.num_classes), F(s.num_classes)))
    ELSE
        LET acc == JaccardWeightedLoop(s, s.num_classes)
        IN Some(FDiv(acc.weighted_sum, F(acc.total_support)))

AverageMethod == {"Micro", "Macro", "Weighted"}

\* --------------------------------------------------- BinaryAuroc::compute
\* slice::sort_by is stable: a sample goes behind every sample already placed
\* whose score is greater than or equal to its own (descending order)
\* mutant: the comparator orders by increasing score
RECURSIVE InsertAsc(_, _)
InsertAsc(sorted, x) ==
    IF sorted = <<>> THEN <<x>>
    ELSE IF Head(sorted)[1] <= x[1] THEN <<Head(sorted)>> \o InsertAsc(Tail(sorted), x)
    ELSE <<x>> \o sorted

RECURSIVE InsertDesc(_, _)
InsertDesc(sorted, x) ==
    IF sorted = <<>> THEN <<x>>
    ELSE IF Head(sorted)[1] >= x[1] THEN <<Head(sorted)>> \o InsertDesc(Tail(sorted), x)
    ELSE <<x>> \o sorted

RECURSIVE SortDesc(_)
SortDesc(samples) ==
    IF samples = <<>> THEN <<>>
    ELSE InsertDesc(SortDesc(SubSeq(samples, 1, Len(samples) - 1)),
                    samples[Len(samples)])

\* mutant: a score less than 0.2 below current_score joins the group
RECURSIVE GroupEndNearScores(_, _, _)
GroupEndNearScores(sorted, idx, current_score) ==
    IF idx <= Len(sorted) /\ 5 * (current_score - sorted[idx][1]) < ScoreUnit
        THEN GroupEndNearScores(sorted, idx + 1, current_score)
    ELSE idx

\* mutant: a group is the sample at idx alone, whatever the scores after it
GroupEndSingle(sorted, idx, current_score) == idx + 1

\* the inner while loop: the first position past idx whose score differs
RECURSIVE GroupEnd(_, _, _)
GroupEnd(sorted, idx, current_score) ==
    IF idx <= Len(sorted) /\ sorted[idx][1] = current_score
        THEN GroupEnd(sorted, idx + 1, current_score)
    ELSE idx

\* the outer while loop; auc2 is twice the accumulated area
RECURSIVE ExactSweep(_, _, _, _, _)
ExactSweep(sorted, idx, tp, fp, auc2) ==
    IF idx > Len(sorted) THEN auc2
    ELSE LET end == GroupEnd(sorted, idx, sorted[idx][1])
             group_pos == Cardinality({j \in idx .. end - 1 : sorted[j][2]})
             group_neg == Cardinality({j \in idx .. end - 1 : ~sorted[j][2]})
             tp1 == tp + group_pos
             fp1 == fp + group_neg
         IN ExactSweep(sorted, end, tp1, fp1, auc2 + (fp1 - fp) * (tp1 + tp))

\* mutant: the bins are visited from the lowest to the highest
RECURSIVE BinnedSweepAscending(_, _, _, _, _, _)
BinnedSweepAscending(pos_hist, neg_hist, hit, tp, fp, auc2) ==
    IF hit = {} THEN auc2
    ELSE LET bin == CHOOSE k \in hit : \A j \in hit : j >= k
             tp1 == tp + (IF bin \in DOMAIN pos_hist THEN pos_hist[bin] ELSE 0)
             fp1 == fp + (IF bin \in DOMAIN neg_hist THEN neg_hist[bin] ELSE 0)
         IN BinnedSweepAscending(pos_hist, neg_hist, hit \ {bin}, tp1, fp1,
                                 auc2 + (fp1 - fp) * (tp1 + tp))

\* the loop over the bins from the highest to the lowest; auc2 is twice the
\* area.  A bin that holds nothing leaves tp, fp and auc as they are, so the
\* loop is run over `hit`, the bins not yet visited that hold something.
RECURSIVE BinnedSweep(_, _, _, _, _, _)
BinnedSweep(pos_hist, neg_hist, hit, tp, fp, auc2) ==
    IF hit = {} THEN auc2
    ELSE LET bin == CHOOSE k \in hit : \A j \in hit : j <= k
             tp1 == tp + (IF bin \in DOMAIN pos_hist THEN pos_hist[bin] ELSE 0)
             fp1 == fp + (IF bin \in DOMAIN neg_hist THEN neg_hist[bin] ELSE 0)
         IN BinnedSweep(pos_hist, neg_hist, hit \ {bin}, tp1, fp1,
                        auc2 + (fp1 - fp) * (tp1 + tp))

\* mutant: the one-sided test joins its two comparisons with && instead of ||
BinaryAurocComputeExactBothZero(samples) ==
    IF samples = <<>> THEN None
    ELSE LET sorted == SortDesc(samples)
             total_pos == Cardinality({j \in 1 .. Len(sorted) : sorted[j][2]})
             total_neg == Len(sorted) - total_pos
         IN IF total_pos = 0 /\ total_neg = 0 THEN None
            ELSE Some(FDiv(Num(ExactSweep(sorted, 1, 0, 0, 0), 2),
                           FMul(F(total_pos), F(total_neg))))

BinaryAurocComputeExact(samples) ==
    IF samples = <<>> THEN None
    ELSE LET sorted == SortDesc(samples)
             total_pos == Cardinality({j \in 1 .. Len(sorted) : sorted[j][2]})
             total_neg == Len(sorted) - total_pos
         IN IF total_pos = 0 \/ total_neg = 0 THEN None
            ELSE Some(FDiv(Num(ExactSweep(sorted, 1, 0, 0, 0), 2),
                           FMul(F(total_pos), F(total_neg))))

\* mutant: the emptiness test joins its two comparisons with || instead of &&
BinaryAurocComputeBinnedEitherZero(pos_hist, neg_hist) ==
    LET hit == DOMAIN pos_hist \cup DOMAIN neg_hist
        total_pos == HistSum(pos_hist)
        total_neg == HistSum(neg_hist)
    IN IF total_pos = 0 \/ total_neg = 0 THEN None
       ELSE Some(FDiv(Num(BinnedSweep(pos_hist, neg_hist, hit, 0, 0, 0), 2),
                      FMul(F(total_pos), F(total_neg))))

BinaryAurocComputeBinned(pos_hist, neg_hist) ==
    LET hit == DOMAIN pos_hist \cup DOMAIN neg_hist
        total_pos == HistSum(pos_hist)
        total_neg == HistSum(neg_hist)
    IN IF total_pos = 0 /\ total_neg = 0 THEN None
       ELSE Some(FDiv(Num(BinnedSweep(pos_hist, neg_hist, hit, 0, 0, 0), 2),
                      FMul(F(total_pos), F(total_neg))))

BinaryAurocCompute(s) ==
    IF s.mode = "Exact" THEN BinaryAurocComputeExact(s.samples)
    ELSE BinaryAurocComputeBinned(s.pos_hist, s.neg_hist)

\* ----------------------------------------------------------------- inputs
\* thresholds, bin counts and class counts the constructors are called with
Thresholds == {0, Half}

Bins == {0, 2, 3}

NumClasses == {2, 3}

NumLabels == {1, 2}

\* (score, label) samples offered to the metrics over (&[f64], &[usize]): the
\* scores 0.5 and 1.0 with either label, a score below the range, a score
\* above it, and a label that is neither 0 nor 1
BinarySamples ==
    ({Half, ScoreUnit} \X {0, 1})
    \cup {<<-1, 1>>, <<ScoreUnit + 1, 0>>, <<Half, 2>>}

\* (prediction, target) samples offered to BinaryAccuracy: 2 is the invalid label
LabelSamples == {0, 1, 2} \X {0, 1, 2}

\* (prediction, target) samples offered to MulticlassAccuracy over n classes:
\* the first class, the last class and the first invalid index
ClassSamples(n) == {0, n - 1, n} \X {0, n - 1, n}

\* prediction rows offered to a metric over n classes: two one-hot rows, a row
\* whose first two scores tie for the maximum, a row one score short and a row
\* holding an out-of-range score
OneHot(n, hot) == [k \in 0 .. n - 1 |-> IF k = hot THEN ScoreUnit ELSE 0]

TieRow(n) == [k \in 0 .. n - 1 |-> IF k <= 1 THEN Half ELSE 0]

ShortRow(n) == [k \in 0 .. n - 2 |-> IF k = 0 THEN ScoreUnit ELSE 0]

BadRow(n) == [k \in 0 .. n - 1 |-> IF k = 0 THEN ScoreUnit + 1 ELSE 0]

\* (row, target) samples: the valid rows with the first and the last class as
\* target, and one sample for each way a sample can be invalid
RowSamples(n) ==
    ({OneHot(n, 0), OneHot(n, n - 1), TieRow(n)} \X {0, n - 1})
    \cup {<<OneHot(n, 0), n>>, <<ShortRow(n), 0>>, <<BadRow(n), 0>>}

\* all batches of at most MaxBatch samples, split into the two slices
Batches(samples) ==
    UNION {{<<[i \in 1 .. n |-> b[i][1]], [i \in 1 .. n |-> b[i][2]]>> :
                b \in [1 .. n -> samples]} : n \in 0 .. MaxBatch}

\* slices whose lengths differ by one; update never reads what they hold
Mismatched(prediction, target) ==
    {<<[i \in 1 .. np |-> prediction], [i \in 1 .. nt |-> target]>> :
        <<np, nt>> \in {x \in (0 .. MaxBatch) \X (0 .. MaxBatch) :
                            x[1] = x[2] + 1 \/ x[2] = x[1] + 1}}

Inputs(samples, prediction, target) ==
    Batches(samples) \cup Mismatched(prediction, target)

\* the calls offered to each kind of metric
BinaryInputs == Inputs(BinarySamples, Half, 1)

LabelInputs == Inputs(LabelSamples, 1, 1)

ClassInputs == [n \in NumClasses |-> Inputs(ClassSamples(n), 0, 0)]

BoolInputs == Inputs(BOOLEAN \X BOOLEAN, TRUE, TRUE)

RowInputs == [n \in NumClasses |-> Inputs(RowSamples(n), OneHot(n, 0), 0)]

\* ---------------------------------------------------------- construction
Configs(m) ==
    CASE m = "BinaryStatScores" -> {[threshold |-> t] : t \in Thresholds}
      [] m = "MulticlassStatScores" -> {[num_classes |-> n] : n \in NumClasses}
      [] m = "BinaryAuroc" -> {[bins |-> b] : b \in Bins}
      [] m = "BinaryAccuracy" -> {<<>>}
      [] m = "MulticlassAccuracy" -> {[num_classes |-> n] : n \in NumClasses}
      [] m = "MultilabelAccuracy" -> {[num_labels |-> n] : n \in NumLabels}
      [] m = "BinaryHingeLoss" -> {[squared |-> q] : q \in BOOLEAN}
      [] m = "MulticlassHingeLoss" ->
            {[num_classes |-> n, squared |-> q] : n \in NumClasses, q \in BOOLEAN}

Metrics == {"BinaryStatScores", "MulticlassStatScores", "BinaryAuroc",
            "BinaryAccuracy", "MulticlassAccuracy", "MultilabelAccuracy",
            "BinaryHingeLoss", "MulticlassHingeLoss"}

New(m, c) ==
    CASE m = "BinaryStatScores" -> BinaryStatScoresNew(c.threshold)
      [] m = "MulticlassStatScores" -> MulticlassStatScoresNew(c.num_classes)
      [] m = "BinaryAuroc" -> BinaryAurocNew(c.bins)
      [] m = "BinaryAccuracy" -> BinaryAccuracyNew
      [] m = "MulticlassAccuracy" -> MulticlassAccuracyNew(c.num_classes)
      [] m = "MultilabelAccuracy" -> MultilabelAccuracyNew(c.num_labels)
      [] m = "BinaryHingeLoss" -> BinaryHingeLossNew(c.squared)
      [] m = "MulticlassHingeLoss" -> MulticlassHingeLossNew(c.num_classes, c.squared)

Init ==
    /\ metric \in Metrics
    /\ cfg \in Configs(metric)
    /\ self = New(metric, cfg)
    /\ call = [op |-> "new", predictions |-> 0, targets |-> 0]
    /\ result = Ok
    /\ observed = 0
    /\ data = <<>>

\* ---------------------------------------------------------------- actions
\* the samples of a binary batch that precede its first invalid sample
RECURSIVE ValidPrefix(_, _, _)
ValidPrefix(predictions, targets, i) ==
    IF i > Len(predictions) \/ i > Len(targets) THEN 0
    ELSE IF predictions[i] < 0 \/ predictions[i] > ScoreUnit \/ targets[i] > 1 THEN 0
    ELSE 1 + ValidPrefix(predictions, targets, i + 1)

\* bookkeeping common to every update call
Returned(r, predictions, targets) ==
    /\ self' = r.self
    /\ result' = r.result
    /\ call' = [op |-> "update", predictions |-> Len(predictions),
                targets |-> Len(targets)]
    /\ UNCHANGED <<metric, cfg, data>>

\* bookkeeping common to every reset call
Cleared(s) ==
    /\ self' = s
    /\ result' = Ok
    /\ call' = [op |-> "reset", predictions |-> 0, targets |-> 0]
    /\ observed' = 0
    /\ UNCHANGED <<metric, cfg, data>>

BinaryStatScores_update ==
    /\ metric = "BinaryStatScores"
    /\ \E in \in BinaryInputs :
        /\ self.total + Len(in[1]) <= MaxTotal
        /\ Returned(BinaryStatScoresUpdate(self, in[1], in[2]), in[1], in[2])
        /\ UNCHANGED observed

BinaryStatScores_reset ==
    /\ metric = "BinaryStatScores"
    /\ Cleared(BinaryStatScoresReset(self))

MulticlassStatScores_update ==
    /\ metric = "MulticlassStatScores"
    /\ \E in \in RowInputs[self.num_classes] :
        /\ self.total + Len(in[1]) <= MaxTotal
        /\ Returned(MulticlassStatScoresUpdate(self, in[1], in[2]), in[1], in[2])
        /\ UNCHANGED observed

MulticlassStatScores_reset ==
    /\ metric = "MulticlassStatScores"
    /\ Cleared(MulticlassStatScoresReset(self))

BinaryAuroc_update ==
    /\ metric = "BinaryAuroc"
    /\ \E in \in BinaryInputs :
        /\ observed + Len(in[1]) <= MaxTotal
        /\ Returned(BinaryAurocUpdate(self, in[1], in[2]), in[1], in[2])
        /\ observed' = observed + (IF Len(in[1]) = Len(in[2])
                                     THEN ValidPrefix(in[1], in[2], 1) ELSE 0)

BinaryAuroc_reset ==
    /\ metric = "BinaryAuroc"
    /\ Cleared(BinaryAurocReset(self))

BinaryAccuracy_update ==
    /\ metric = "BinaryAccuracy"
    /\ \E in \in LabelInputs :
        /\ self.total + Len(in[1]) <= MaxTotal
        /\ Returned(BinaryAccuracyUpdate(self, in[1], in[2]), in[1], in[2])
        /\ UNCHANGED observed

BinaryAccuracy_reset ==
    /\ metric = "BinaryAccuracy"
    /\ Cleared(AccuracyReset(self))

MulticlassAccuracy_update ==
    /\ metric = "MulticlassAccuracy"
    /\ \E in \in ClassInputs[self.num_classes] :
        /\ self.total + Len(in[1]) <= MaxTotal
        /\ Returned(MulticlassAccuracyUpdate(self, in[1], in[2]), in[1], in[2])
        /\ UNCHANGED observed

MulticlassAccuracy_reset ==
    /\ metric = "MulticlassAccuracy"
    /\ Cleared(AccuracyReset(self))

MultilabelAccuracy_update ==
    /\ metric = "MultilabelAccuracy"
    /\ \E in \in BoolInputs :
        /\ self.total + Len(in[1]) <= MaxTotal
        /\ Returned(MultilabelAccuracyUpdate(self, in[1], in[2]), in[1], in[2])
        /\ UNCHANGED observed

MultilabelAccuracy_reset ==
    /\ metric = "MultilabelAccuracy"
    /\ Cleared(AccuracyReset(self))

BinaryHingeLoss_update ==
    /\ metric = "BinaryHingeLoss"
    /\ \E in \in BinaryInputs :
        /\ self.total + Len(in[1]) <= MaxTotal
        /\ Returned(BinaryHingeLossUpdate(self, in[1], in[2]), in[1], in[2])
        /\ UNCHANGED observed

BinaryHingeLoss_reset ==
    /\ metric = "BinaryHingeLoss"
    /\ Cleared(HingeLossReset(self))

MulticlassHingeLoss_update ==
    /\ metric = "MulticlassHingeLoss"
    /\ \E in \in RowInputs[self.num_classes] :
        /\ self.total + Len(in[1]) <= MaxTotal
        /\ Returned(MulticlassHingeLossUpdate(self, in[1], in[2]), in[1], in[2])
        /\ UNCHANGED observed

MulticlassHingeLoss_reset ==
    /\ metric = "MulticlassHingeLoss"
    /\ Cleared(HingeLossReset(self))

Next ==
    \/ BinaryStatScores_update
    \/ BinaryStatScores_reset
    \/ MulticlassStatScores_update
    \/ MulticlassStatScores_reset
    \/ BinaryAuroc_update
    \/ BinaryAuroc_reset
    \/ BinaryAccuracy_update
    \/ BinaryAccuracy_reset
    \/ MulticlassAccuracy_update
    \/ MulticlassAccuracy_reset
    \/ MultilabelAccuracy_update
    \/ MultilabelAccuracy_reset
    \/ BinaryHingeLoss_update
    \/ BinaryHingeLoss_reset
    \/ MulticlassHingeLoss_update
    \/ MulticlassHingeLoss_reset

Spec == Init /\ [][Next]_vars

\* ------------------------------------------------------- feeding a dataset
\* SpecFeed: one instance is constructed and a fixed dataset of valid samples
\* is fed to it front to back, split into update calls in every possible way.
MaxData == 3       \* longest dataset drawn from FeedSamples or FineSamples

\* k / 10 as a score
Tenths(k) == (k * ScoreUnit) \div 10

\* a dataset is a sequence of <<prediction, target>>
Dataset(predictions, targets) ==
    [i \in 1 .. Len(predictions) |-> <<predictions[i], targets[i]>>]

\* the batches of the worked examples (spec section 8) and of test binary_auroc
StatScoresExample ==
    Dataset(<<Tenths(8), Tenths(6), Tenths(3), Tenths(1)>>, <<1, 0, 1, 0>>)

AurocExample ==
    Dataset(<<Tenths(9), Tenths(8), Tenths(7), Tenths(4), Tenths(2)>>, <<1, 1, 0, 0, 1>>)

AurocTestBatch ==
    Dataset(<<0, Tenths(5), Tenths(7), Tenths(8)>>, <<0, 1, 1, 0>>)

\* the bin counts used with datasets: 5 is the one of test binary_auroc
TestBins == 5

\* the bin count of the convergence property
ConvergenceBins == 100000

DatasetsOver(samples) ==
    UNION {[1 .. n -> samples] : n \in 0 .. MaxData}

\* scores far apart: 0.0, 0.5 and 1.0
FeedSamples == {0, Half, ScoreUnit} \X {0, 1}

\* scores a few grid steps apart: 0.0 and 0.000001 round to bin 0 of
\* ConvergenceBins bins, 0.00001 rounds to bin 1
FineSamples == {<<0, 1>>, <<1, 0>>, <<10, 0>>, <<10, 1>>}

FeedDatasets == DatasetsOver(FeedSamples)

FineDatasets == DatasetsOver(FineSamples)

\* the valid (row, target) samples of RowSamples: a row whose maximum is the
\* first class, one whose maximum is the last, a tie, with either end label
RowFeedSamples(n) == {OneHot(n, 0), OneHot(n, n - 1), TieRow(n)} \X {0, n - 1}

RowDatasets == [n \in NumClasses |-> DatasetsOver(RowFeedSamples(n))]

\* instance and dataset of a SpecFeed behaviour
Feeds ==
    {[metric |-> "BinaryStatScores", cfg |-> [threshold |-> Half], data |-> d] :
        d \in FeedDatasets \cup {StatScoresExample}}
    \cup UNION {{[metric |-> "MulticlassStatScores", cfg |-> [num_classes |-> n],
                   data |-> d] : d \in RowDatasets[n]} : n \in NumClasses}
    \cup {[metric |-> "BinaryAuroc", cfg |-> [bins |-> b], data |-> d] :
        b \in {0, 2, TestBins}, d \in FeedDatasets \cup {AurocExample, AurocTestBatch}}
    \cup {[metric |-> "BinaryAuroc", cfg |-> [bins |-> b], data |-> d] :
        b \in {0, ConvergenceBins}, d \in FineDatasets}

FeedInit ==
    /\ \E f \in Feeds : metric = f.metric /\ cfg = f.cfg /\ data = f.data
    /\ self = New(metric, cfg)
    /\ call = [op |-> "new", predictions |-> 0, targets |-> 0]
    /\ result = Ok
    /\ observed = 0

\* the sizes the next update call may have: up to MaxBatch samples, or all
\* that is left of the dataset
FeedSizes == {n \in 1 .. Len(data) - observed : n <= MaxBatch \/ n = Len(data) - observed}

FeedPredictions(n) == [i \in 1 .. n |-> data[observed + i][1]]

FeedTargets(n) == [i \in 1 .. n |-> data[observed + i][2]]

Feed_BinaryStatScores_update ==
    /\ metric = "BinaryStatScores"
    /\ \E n \in FeedSizes :
        /\ Returned(BinaryStatScoresUpdate(self, FeedPredictions(n), FeedTargets(n)),
                    FeedPredictions(n), FeedTargets(n))
        /\ observed' = observed + n

Feed_MulticlassStatScores_update ==
    /\ metric = "MulticlassStatScores"
    /\ \E n \in FeedSizes :
        /\ Returned(MulticlassStatScoresUpdate(self, FeedPredictions(n), FeedTargets(n)),
                    FeedPredictions(n), FeedTargets(n))
        /\ observed' = observed + n

Feed_BinaryAuroc_update ==
    /\ metric = "BinaryAuroc"
    /\ \E n \in FeedSizes :
        /\ Returned(BinaryAurocUpdate(self, FeedPredictions(n), FeedTargets(n)),
                    FeedPredictions(n), FeedTargets(n))
        /\ observed' = observed + n

FeedNext ==
    \/ Feed_BinaryStatScores_update
    \/ Feed_MulticlassStatScores_update
    \/ Feed_BinaryAuroc_update

SpecFeed == FeedInit /\ [][FeedNext]_vars

\* ------------------------------------------------------------ properties
\* every compute() that reads an accumulator of kind m in state s
Computes(m, s) ==
    CASE m = "BinaryStatScores" ->
            {BinaryPrecisionCompute(s), BinaryRecallCompute(s), BinaryF1ScoreCompute(s),
             BinaryJaccardIndexCompute(s), BinaryConfusionMatrixCompute(s)}
      [] m = "MulticlassStatScores" ->
            UNION {{MulticlassPrecisionCompute(s, a), MulticlassF1ScoreCompute(s, a),
                    MulticlassJaccardIndexCompute(s, a)} : a \in AverageMethod}
      [] m = "BinaryAuroc" -> {BinaryAurocCompute(s)}
      [] m = "BinaryAccuracy" -> {BinaryAccuracyCompute(s)}
      [] m = "MulticlassAccuracy" -> {MulticlassAccuracyCompute(s)}
      [] m = "MultilabelAccuracy" -> {MultilabelAccuracyCompute(s)}
      [] m = "BinaryHingeLoss" -> {BinaryHingeLossCompute(s)}
      [] m = "MulticlassHingeLoss" -> {MulticlassHingeLossCompute(s)}

\* samples of an exact-mode sample list that carry the given label
Labelled(samples, positive) ==
    Cardinality({i \in 1 .. Len(samples) : samples[i][2] = positive})

\* C1: in every reachable state of a BinaryStatScores, whatever updates
\* (successful or failing) and resets led there, total equals
\* true_positive + false_positive + false_negative + true_negative.
C1_TotalIsSumOfCounts ==
    metric = "BinaryStatScores" =>
        self.total = self.true_positive + self.false_positive
                        + self.false_negative + self.true_negative

\* C1 witness: a failing update has run on an accumulator that holds samples
C1_Witness ==
    /\ metric = "BinaryStatScores"
    /\ call.op = "update"
    /\ IsErr(result)
    /\ self.total >= 2

\* C2: in every reachable state of a MulticlassStatScores, for every class k,
\* total_per_class[k] equals tp[k] + fp[k] + fn[k] + tn[k] and equals total,
\* so the per-class totals add up to num_classes * total.
C2_PerClassTotals ==
    metric = "MulticlassStatScores" =>
        /\ \A k \in 0 .. self.num_classes - 1 :
            /\ self.total_per_class[k] =
                    self.true_positive[k] + self.false_positive[k]
                        + self.false_negative[k] + self.true_negative[k]
            /\ self.total_per_class[k] = self.total
        /\ SumVec(self.total_per_class, self.num_classes) = self.num_classes * self.total

\* C2 witness: three classes, a failing update after samples were counted
C2_Witness ==
    /\ metric = "MulticlassStatScores"
    /\ self.num_classes = 3
    /\ call.op = "update"
    /\ IsErr(result)
    /\ self.total >= 2

\* C3: a BinaryStatScores.update call that returns an error leaves tp, fp, fn,
\* tn and total exactly as they were before the call.
C3_FailedUpdateLeavesCounters ==
    [][(metric = "BinaryStatScores" /\ call'.op = "update" /\ IsErr(result'))
            => self' = self]_vars

\* C4: a MulticlassStatScores.update call that returns an error leaves every
\* per-class counter vector and total exactly as they were before the call.
C4_FailedUpdateLeavesVectors ==
    [][(metric = "MulticlassStatScores" /\ call'.op = "update" /\ IsErr(result'))
            => self' = self]_vars

\* C5: a BinaryAuroc.update call that returns an error leaves the sample list
\* (exact mode) or the two histograms (binned mode) as they were before the
\* call, even when valid samples precede the invalid one in the batch.
C5_FailedUpdateLeavesAuroc ==
    [][(metric = "BinaryAuroc" /\ call'.op = "update" /\ IsErr(result'))
            => self' = self]_vars

\* C6: for every accumulator, an update whose prediction count differs from
\* its target count returns LengthMismatch carrying the two lengths and
\* changes no field of the accumulator.
C6_LengthMismatchRejected ==
    [][(call'.op = "update" /\ call'.predictions # call'.targets)
            => /\ result' = LengthMismatch(call'.predictions, call'.targets)
               /\ self' = self]_vars

\* C6 witness: a mismatched batch was rejected by a BinaryAccuracy that
\* already holds samples
C6_Witness ==
    /\ metric = "BinaryAccuracy"
    /\ call.op = "update"
    /\ call.predictions # call.targets
    /\ result.tag = "LengthMismatch"
    /\ self.total > 0

\* C7: for every classification metric, compute() called right after reset()
\* returns None, whatever successful or failed updates preceded the reset.
C7_ResetThenComputeIsNone ==
    call.op = "reset" => Computes(metric, self) = {None}

\* C7 witness: a binned AUROC accumulator has just been reset
C7_Witness ==
    /\ metric = "BinaryAuroc"
    /\ self.mode = "Binned"
    /\ call.op = "reset"

\* C8: after reset(), a BinaryStatScores, MulticlassStatScores or BinaryAuroc
\* is in exactly the state fresh construction with the same configuration
\* produces: same threshold, same num_classes with zero vectors of that length,
\* same AUROC mode and bin count with an empty list or all-zero histograms.
C8_ResetIsFreshConstruction ==
    (call.op = "reset"
        /\ metric \in {"BinaryStatScores", "MulticlassStatScores", "BinaryAuroc"})
    => self = New(metric, cfg)

\* C8 witness: a three-class MulticlassStatScores has just been reset
C8_Witness ==
    /\ metric = "MulticlassStatScores"
    /\ cfg.num_classes = 3
    /\ call.op = "reset"

C10_ExactNeedsBothLabels ==
    (metric = "BinaryAuroc" /\ self.mode = "Exact") =>
        LET out == BinaryAurocCompute(self)
            one_sided == \/ Labelled(self.samples, TRUE) = 0
                         \/ Labelled(self.samples, FALSE) = 0
        IN /\ one_sided => out = None
           /\ out.tag = "Some" => ~one_sided

\* C10 witness: exact mode holding two positives and no negative
C10_Witness ==
    /\ metric = "BinaryAuroc"
    /\ self.mode = "Exact"
    /\ Labelled(self.samples, TRUE) = 2
    /\ Labelled(self.samples, FALSE) = 0

\* C11: in both modes, whenever compute() of a BinaryAuroc returns Some(v)
\* after any sequence of updates, v lies in [0, 1]: the divisor
\* total_pos * total_neg is non-zero and the area is between 0 and it, so v
\* is a number with 0 <= v <= 1.
C11_AurocInUnitInterval ==
    metric = "BinaryAuroc" =>
        LET out == BinaryAurocCompute(self)
        IN out.tag = "Some" =>
                /\ out.value.kind = "Num"
                /\ 0 <= out.value.num
                /\ out.value.num <= out.value.den

\* C12: for each valid sample (prediction, target) BinaryStatScores.update
\* raises exactly one of the four counters, the one chosen by
\* predicted_positive = (prediction > threshold), strictly, so a prediction
\* equal to the threshold counts as predicted negative, and
\* actual_positive = (target = 1); it raises total by one and leaves the other
\* three counters and the threshold as they were.
C12_OneCounterPerSample ==
    metric = "BinaryStatScores" =>
        \A prediction \in {0, Half, ScoreUnit}, target \in {0, 1} :
            LET out == BinaryStatScoresUpdate(self, <<prediction>>, <<target>>)
                predicted_positive == prediction > self.threshold
                actual_positive == target = 1
                tp == IF predicted_positive /\ actual_positive THEN 1 ELSE 0
                fp == IF predicted_positive /\ ~actual_positive THEN 1 ELSE 0
                fn == IF ~predicted_positive /\ actual_positive THEN 1 ELSE 0
                tn == IF ~predicted_positive /\ ~actual_positive THEN 1 ELSE 0
            IN /\ out.result = Ok
               /\ tp + fp + fn + tn = 1
               /\ out.self = [true_positive |-> self.true_positive + tp,
                              false_positive |-> self.false_positive + fp,
                              false_negative |-> self.false_negative + fn,
                              true_negative |-> self.true_negative + tn,
                              total |-> self.total + 1,
                              threshold |-> self.threshold]

\* C12 witness: with threshold 0.5 a positive sample has been counted as a
\* false negative, which only a prediction equal to the threshold produces
C12_Witness ==
    /\ metric = "BinaryStatScores"
    /\ self.threshold = Half
    /\ call.op = "update"
    /\ result = Ok
    /\ self.false_negative >= 1
    /\ self.true_positive >= 1

\* C13: for each valid sample with target class t whose row has its single
\* largest score at class p, MulticlassStatScores.update changes, for every
\* class k, exactly one of the four counters: tp[k] if k = t = p, fn[k] if
\* k = t # p, fp[k] if k = p # t, tn[k] otherwise; it raises
\* total_per_class[k] by one for every k and total by one, once.
C13_OneCounterPerClass ==
    metric = "MulticlassStatScores" =>
        \A p \in 0 .. self.num_classes - 1, t \in 0 .. self.num_classes - 1 :
            LET row == [k \in 0 .. self.num_classes - 1 |->
                            IF k = p THEN ScoreUnit ELSE Half]
                out == MulticlassStatScoresUpdate(self, <<row>>, <<t>>)
                raised(field, k) == out.self[field][k] - self[field][k]
            IN /\ out.result = Ok
               /\ out.self.total = self.total + 1
               /\ out.self.num_classes = self.num_classes
               /\ \A k \in 0 .. self.num_classes - 1 :
                    /\ raised("total_per_class", k) = 1
                    /\ raised("true_positive", k) = (IF k = t /\ k = p THEN 1 ELSE 0)
                    /\ raised("false_negative", k) = (IF k = t /\ k # p THEN 1 ELSE 0)
                    /\ raised("false_positive", k) = (IF k = p /\ k # t THEN 1 ELSE 0)
                    /\ raised("true_negative", k) = (IF k # t /\ k # p THEN 1 ELSE 0)

\* C13 witness: three classes, after a successful update one class holds a
\* false positive, another a false negative and the third a true negative
C13_Witness ==
    /\ metric = "MulticlassStatScores"
    /\ self.num_classes = 3
    /\ call.op = "update"
    /\ result = Ok
    /\ \E a, b, c \in 0 .. 2 :
        /\ a # b /\ b # c /\ a # c
        /\ self.false_positive[a] >= 1
        /\ self.false_negative[b] >= 1
        /\ self.true_negative[c] >= 1

\* C14: the predicted class of a row is the index of its largest score; when
\* several classes share the largest score, the first (lowest-index) of them
\* is the predicted class.  The predicted class is read off the counters: it
\* is the one class whose true_positive or false_positive count the update
\* raises.
C14_FirstMaximumOnTies ==
    metric = "MulticlassStatScores" =>
        \A row \in [0 .. self.num_classes - 1 -> {0, Half, ScoreUnit}],
           t \in 0 .. self.num_classes - 1 :
            LET out == MulticlassStatScoresUpdate(self, <<row>>, <<t>>)
                hits(s, k) == s.true_positive[k] + s.false_positive[k]
                predicted == {k \in 0 .. self.num_classes - 1 :
                                hits(out.self, k) > hits(self, k)}
                largest == {k \in 0 .. self.num_classes - 1 :
                                \A j \in 0 .. self.num_classes - 1 : row[j] <= row[k]}
            IN /\ out.result = Ok
               /\ predicted = {k \in largest : \A j \in largest : k <= j}

\* C14 (amended): the predicted class of a row is the index of its largest
\* score; when several classes share the largest score, the last
\* (highest-index) of them is the predicted class.
C14_LastMaximumOnTies ==
    metric = "MulticlassStatScores" =>
        \A row \in [0 .. self.num_classes - 1 -> {0, Half, ScoreUnit}],
           t \in 0 .. self.num_classes - 1 :
            LET out == MulticlassStatScoresUpdate(self, <<row>>, <<t>>)
                hits(s, k) == s.true_positive[k] + s.false_positive[k]
                predicted == {k \in 0 .. self.num_classes - 1 :
                                hits(out.self, k) > hits(self, k)}
                largest == {k \in 0 .. self.num_classes - 1 :
                                \A j \in 0 .. self.num_classes - 1 : row[j] <= row[k]}
            IN /\ out.result = Ok
               /\ predicted = {k \in largest : \A j \in largest : j <= k}

\* C14 witness: three classes and class 1 has been predicted, which among
\* the rows offered only the row (0.5, 0.5, 0.0) with its tie does
C14_Witness ==
    /\ metric = "MulticlassStatScores"
    /\ self.num_classes = 3
    /\ call.op = "update"
    /\ result = Ok
    /\ self.false_positive[1] >= 1
    /\ self.false_positive[0] = 0
    /\ self.true_positive[0] = 0

\* C15: BinaryStatScores.update returns LengthMismatch if and only if the
\* prediction and target slices differ in length; with equal lengths it
\* returns IncompatibleInput if and only if some prediction lies outside
\* [0, 1] or some target is neither 0 nor 1; otherwise it returns Ok.
C15_UpdateErrorKinds ==
    metric = "BinaryStatScores" =>
        \A in \in BinaryInputs :
            LET predictions == in[1]
                targets == in[2]
                out == BinaryStatScoresUpdate(self, predictions, targets).result
                same_length == Len(predictions) = Len(targets)
                bad_prediction == \E i \in 1 .. Len(predictions) :
                                    predictions[i] < 0 \/ predictions[i] > ScoreUnit
                bad_target == \E i \in 1 .. Len(targets) : targets[i] \notin {0, 1}
            IN /\ out.tag \in {"Ok", "LengthMismatch", "IncompatibleInput"}
               /\ (out.tag = "LengthMismatch") <=> ~same_length
               /\ same_length =>
                    ((out.tag = "IncompatibleInput") <=> (bad_prediction \/ bad_target))
               /\ (out.tag = "Ok") <=> (same_length /\ ~bad_prediction /\ ~bad_target)

\* C15 witness: an update with slices of equal length has been rejected
\* with IncompatibleInput after an earlier update was accepted
C15_Witness ==
    /\ metric = "BinaryStatScores"
    /\ call.op = "update"
    /\ call.predictions = call.targets
    /\ result = IncompatibleInput
    /\ self.total >= 1

\* the whole dataset of the behaviour went in with a single update call
FedInOneCall == call.op = "update" /\ call.predictions = Len(data) /\ observed = Len(data)

\* C16: a fresh BinaryStatScores with threshold 0.5, given one update with
\* predictions [0.8, 0.6, 0.3, 0.1] and labels [1, 0, 1, 0], holds tp = 1,
\* fp = 0, fn = 1, tn = 2.
C16_ExampleCounts ==
    (metric = "BinaryStatScores" /\ data = StatScoresExample /\ FedInOneCall) =>
        /\ self.true_positive = 1
        /\ self.false_positive = 0
        /\ self.false_negative = 1
        /\ self.true_negative = 2

\* C16 (amended): a fresh BinaryStatScores with threshold 0.5, given one
\* update with predictions [0.8, 0.6, 0.3, 0.1] and labels [1, 0, 1, 0],
\* holds tp = 1, fp = 1, fn = 1, tn = 1: 0.6 exceeds the threshold and its
\* label is 0, so it is a false positive.
C16_ExampleCountsOneEach ==
    (metric = "BinaryStatScores" /\ data = StatScoresExample /\ FedInOneCall) =>
        /\ cfg.threshold = Half
        /\ result = Ok
        /\ self.true_positive = 1
        /\ self.false_positive = 1
        /\ self.false_negative = 1
        /\ self.true_negative = 1

\* C16 witness: the example batch has gone into a fresh accumulator in one call
C16_Witness ==
    /\ metric = "BinaryStatScores"
    /\ data = StatScoresExample
    /\ FedInOneCall
    /\ self.total = 4

\* every sample of the behaviour's dataset has been fed, in whatever calls
AllFed == observed = Len(data) /\ Len(data) > 0

\* C17: in exact mode the predictions [0.9, 0.8, 0.7, 0.4, 0.2] with labels
\* [1, 1, 0, 0, 1] compute exactly 2/3 (area 4 over 3 positives * 2
\* negatives = 6).
C17_ExampleAuroc ==
    (metric = "BinaryAuroc" /\ cfg.bins = 0 /\ data = AurocExample /\ AllFed) =>
        /\ Labelled(self.samples, TRUE) = 3
        /\ Labelled(self.samples, FALSE) = 2
        /\ ExactSweep(SortDesc(self.samples), 1, 0, 0, 0) = 2 * 4
        /\ BinaryAurocCompute(self) = Some([kind |-> "Num", num |-> 2, den |-> 3])

\* C17 witness: the five samples of the example are held in exact mode
C17_Witness ==
    /\ metric = "BinaryAuroc"
    /\ cfg.bins = 0
    /\ data = AurocExample
    /\ AllFed
    /\ Len(self.samples) = 5

\* compute() of a fresh exact-mode BinaryAuroc that was given the dataset in
\* one update call
ExactAurocOf(dataset) ==
    BinaryAurocCompute(
        BinaryAurocUpdate(BinaryAurocNew(0),
                          [i \in 1 .. Len(dataset) |-> dataset[i][1]],
                          [i \in 1 .. Len(dataset) |-> dataset[i][2]]).self)

\* C18: the batch [0.0, 0.5, 0.7, 0.8] with targets [0, 1, 1, 0], fed to a
\* binned BinaryAuroc with 5 bins (bin index round(score * 4)), computes 0.5,
\* the same value exact mode computes for that batch.
C18_TestBatchBinnedIsHalf ==
    (metric = "BinaryAuroc" /\ cfg.bins = TestBins /\ data = AurocTestBatch /\ AllFed) =>
        /\ BinaryAurocCompute(self) = Some([kind |-> "Num", num |-> 1, den |-> 2])
        /\ BinaryAurocCompute(self) = ExactAurocOf(data)

\* the dataset holds at least one positive and at least one negative sample
BothLabels(dataset) ==
    /\ \E i \in 1 .. Len(dataset) : dataset[i][2] = 1
    /\ \E i \in 1 .. Len(dataset) : dataset[i][2] = 0

\* scores p and q round to the same one of `bins` bins: p * (bins - 1) and
\* q * (bins - 1) lie in the same interval [k - 1/2, k + 1/2)
SameBin(p, q, bins) ==
    (2 * p * (bins - 1) + ScoreUnit) \div (2 * ScoreUnit)
        = (2 * q * (bins - 1) + ScoreUnit) \div (2 * ScoreUnit)

\* two samples of opposite labels and distinct scores fall into the same bin
MixedBin(dataset, bins) ==
    \E i, j \in 1 .. Len(dataset) :
        /\ dataset[i][2] # dataset[j][2]
        /\ dataset[i][1] # dataset[j][1]
        /\ SameBin(dataset[i][1], dataset[j][1], bins)

\* |x - y| < 1e-3 for two computed values
WithinTolerance(x, y) ==
    /\ x.tag = "Some" /\ y.tag = "Some"
    /\ x.value.kind = "Num" /\ y.value.kind = "Num"
    /\ LET d == x.value.num * y.value.den - y.value.num * x.value.den
       IN 1000 * (IF d < 0 THEN -d ELSE d) < x.value.den * y.value.den

\* C19: for any dataset with at least one positive and one negative sample,
\* AUROC computed in exact mode and in binned mode with bins = 100000 differ
\* by less than 1e-3, also when oppositely labelled samples have distinct
\* scores that fall into the same bin.
C19_BinnedWithinTolerance ==
    (/\ metric = "BinaryAuroc"
     /\ cfg.bins = ConvergenceBins
     /\ AllFed
     /\ BothLabels(data)) =>
        WithinTolerance(BinaryAurocCompute(self), ExactAurocOf(data))

\* C19 (amended): for any dataset with at least one positive and one negative
\* sample in which no two oppositely labelled samples of distinct scores fall
\* into the same bin, AUROC computed in exact mode and in binned mode with
\* bins = 100000 differ by less than 1e-3.
C19_BinnedWithinToleranceUnmixed ==
    (/\ metric = "BinaryAuroc"
     /\ cfg.bins = ConvergenceBins
     /\ AllFed
     /\ BothLabels(data)
     /\ ~MixedBin(data, ConvergenceBins)) =>
        WithinTolerance(BinaryAurocCompute(self), ExactAurocOf(data))

\* C19 witness: 100000 bins hold a negative in bin 1 and, in bin 0, a
\* positive; no bin mixes labels of distinct scores
C19_Witness ==
    /\ metric = "BinaryAuroc"
    /\ cfg.bins = ConvergenceBins
    /\ AllFed
    /\ BothLabels(data)
    /\ ~MixedBin(data, ConvergenceBins)
    /\ 0 \in DOMAIN self.pos_hist
    /\ 1 \in DOMAIN self.neg_hist
    /\ Len(data) = 3

\* scores that strictly increasing maps send the scores of a dataset to
RankTargets == {0, Tenths(1), Tenths(2), Half, Tenths(9), ScoreUnit}

\* C20: exact-mode AUROC depends only on the ranking of the scores: for every
\* strictly increasing map f whose images stay in [0, 1], the dataset with
\* every score s replaced by f(s) computes the same value as the dataset
\* itself.
C20_RankInvariant ==
    (metric = "BinaryAuroc" /\ cfg.bins = 0 /\ AllFed) =>
        LET scores == {data[i][1] : i \in 1 .. Len(data)}
            increasing == {f \in [scores -> RankTargets] :
                            \A p, q \in scores : p < q => f[p] < f[q]}
        IN \A f \in increasing :
            ExactAurocOf([i \in 1 .. Len(data) |-> <<f[data[i][1]], data[i][2]>>])
                = BinaryAurocCompute(self)

\* C20 witness: exact mode holds a positive and a negative of the same score
\* and a sample of another score, and computes a value
C20_Witness ==
    /\ metric = "BinaryAuroc"
    /\ cfg.bins = 0
    /\ AllFed
    /\ BinaryAurocCompute(self).tag = "Some"
    /\ \E i, j, k \in 1 .. Len(self.samples) :
        /\ self.samples[i][1] = self.samples[j][1]
        /\ self.samples[i][2] /\ ~self.samples[j][2]
        /\ self.samples[k][1] # self.samples[i][1]

\* vals[0] + ... + vals[n - 1] for a per-class vector of f64 values
RECURSIVE FSum(_, _)
FSum(vals, n) == IF n = 0 THEN F(0) ELSE FAdd(FSum(vals, n - 1), vals[n - 1])

\* C21: under Macro averaging MulticlassPrecision, MulticlassF1Score and
\* MulticlassJaccardIndex apply one policy: the result is the arithmetic mean
\* of the per-class ratio over exactly the classes whose per-class
\* denominator is non-zero, and None when no class qualifies; a class with a
\* zero denominator enters neither the sum nor the divisor.
C21_MacroSkipsUndefinedClasses ==
    metric = "MulticlassStatScores" =>
        LET classes == 0 .. self.num_classes - 1
            tp(k) == self.true_positive[k]
            fp(k) == self.false_positive[k]
            fn(k) == self.false_negative[k]
            Mean(num(_), den(_)) ==
                LET defined == {k \in classes : den(k) # 0}
                    ratios == [k \in classes |->
                                IF k \in defined THEN FDiv(F(num(k)), F(den(k)))
                                ELSE F(0)]
                IN IF defined = {} THEN None
                   ELSE Some(FDiv(FSum(ratios, self.num_classes),
                                  F(Cardinality(defined))))
            precisionNum(k) == tp(k)
            precisionDen(k) == tp(k) + fp(k)
            f1Num(k) == 2 * tp(k)
            f1Den(k) == 2 * tp(k) + fp(k) + fn(k)
            jaccardNum(k) == tp(k)
            jaccardDen(k) == tp(k) + fp(k) + fn(k)
        IN /\ MulticlassPrecisionCompute(self, "Macro") = Mean(precisionNum, precisionDen)
           /\ MulticlassF1ScoreCompute(self, "Macro") = Mean(f1Num, f1Den)
           /\ MulticlassJaccardIndexCompute(self, "Macro") = Mean(jaccardNum, jaccardDen)

\* C22: under Weighted averaging MulticlassPrecision, MulticlassF1Score and
\* MulticlassJaccardIndex weight the per-class ratio of class k by its
\* support tp[k] + fn[k] and divide by the summed support; a class whose
\* per-class ratio is undefined (zero denominator) adds to neither the
\* numerator nor the summed support.
C22_WeightedBySupport ==
    metric = "MulticlassStatScores" =>
        LET classes == 0 .. self.num_classes - 1
            tp(k) == self.true_positive[k]
            fp(k) == self.false_positive[k]
            fn(k) == self.false_negative[k]
            support(k) == tp(k) + fn(k)
            Agrees(out, num(_), den(_)) ==
                LET defined == {k \in classes : den(k) # 0}
                    weighted == [k \in classes |->
                                    IF k \in defined
                                        THEN FMul(F(support(k)), FDiv(F(num(k)), F(den(k))))
                                    ELSE F(0)]
                    supports == [k \in classes |->
                                    IF k \in defined THEN F(support(k)) ELSE F(0)]
                    summed == FSum(supports, self.num_classes)
                IN ~IsZero(summed) =>
                        out = Some(FDiv(FSum(weighted, self.num_classes), summed))
            precisionNum(k) == tp(k)
            precisionDen(k) == tp(k) + fp(k)
            f1Num(k) == 2 * tp(k)
            f1Den(k) == 2 * tp(k) + fp(k) + fn(k)
            jaccardNum(k) == tp(k)
            jaccardDen(k) == tp(k) + fp(k) + fn(k)
        IN /\ Agrees(MulticlassPrecisionCompute(self, "Weighted"), precisionNum, precisionDen)
           /\ Agrees(MulticlassF1ScoreCompute(self, "Weighted"), f1Num, f1Den)
           /\ Agrees(MulticlassJaccardIndexCompute(self, "Weighted"), jaccardNum, jaccardDen)

\* C23: BinaryPrecision, BinaryRecall, BinaryF1Score and BinaryJaccardIndex
\* return None when total = 0, and in every reachable state with total > 0
\* whose metric denominator is zero (tp + fp = 0 for precision, tp + fn = 0
\* for recall, tp = 0 for F1, tp + fp + fn = 0 for Jaccard) compute()
\* returns None, not the result of a division by zero.
C23_BinaryNoneOnZeroDenominator ==
    metric = "BinaryStatScores" =>
        LET tp == self.true_positive
            fp == self.false_positive
            fn == self.false_negative
        IN /\ self.total = 0 =>
                /\ BinaryPrecisionCompute(self) = None
                /\ BinaryRecallCompute(self) = None
                /\ BinaryF1ScoreCompute(self) = None
                /\ BinaryJaccardIndexCompute(self) = None
           /\ self.total > 0 =>
                /\ tp + fp = 0 => BinaryPrecisionCompute(self) = None
                /\ tp + fn = 0 => BinaryRecallCompute(self) = None
                /\ tp = 0 => BinaryF1ScoreCompute(self) = None
                /\ tp + fp + fn = 0 => BinaryJaccardIndexCompute(self) = None

\* C25: a BinaryAccuracy.update call that returns IncompatibleInput (a
\* prediction or target greater than 1 somewhere in a batch of matching
\* lengths) leaves correct and total exactly as they were before the call.
C25_RejectedBatchLeavesAccuracy ==
    [][(metric = "BinaryAccuracy" /\ call'.op = "update"
            /\ result' = IncompatibleInput)
            => (self'.correct = self.correct /\ self'.total = self.total)]_vars

\* C26: when every class of a MulticlassStatScores has the same counts (tp,
\* fp and fn equal for all k) and the per-class denominators are positive,
\* the Micro average of MulticlassPrecision, MulticlassF1Score and
\* MulticlassJaccardIndex equals the Macro average and both equal the common
\* per-class value.
C26_MicroEqualsMacroOnUniformCounts ==
    (/\ metric = "MulticlassStatScores"
     /\ \A k \in 0 .. self.num_classes - 1 :
            /\ self.true_positive[k] = self.true_positive[0]
            /\ self.false_positive[k] = self.false_positive[0]
            /\ self.false_negative[k] = self.false_negative[0]
     /\ self.true_positive[0] + self.false_positive[0] > 0)
    => LET tp == self.true_positive[0]
           fp == self.false_positive[0]
           fn == self.false_negative[0]
           precision == Some(FDiv(F(tp), F(tp + fp)))
           f1 == Some(FDiv(F(2 * tp), F(2 * tp + fp + fn)))
           jaccard == Some(FDiv(F(tp), F(tp + fp + fn)))
       IN /\ MulticlassPrecisionCompute(self, "Micro") = precision
          /\ MulticlassPrecisionCompute(self, "Macro") = precision
          /\ MulticlassF1ScoreCompute(self, "Micro") = f1
          /\ MulticlassF1ScoreCompute(self, "Macro") = f1
          /\ MulticlassJaccardIndexCompute(self, "Micro") = jaccard
          /\ MulticlassJaccardIndexCompute(self, "Macro") = jaccard

\* every class has counted one true positive and nothing else
C26_Witness ==
    /\ metric = "MulticlassStatScores"
    /\ \A k \in 0 .. self.num_classes - 1 :
            /\ self.true_positive[k] = 1
            /\ self.false_positive[k] = 0
            /\ self.false_negative[k] = 0

\* C28: in every reachable state of MulticlassStatScores the per-class counts
\* add up to the sample count twice over: the sum of tp[k] + fn[k] equals
\* total, the sum of tp[k] + fp[k] equals total, and so the false positives
\* and the false negatives have the same sum.
C28_ClassCountsSumToTotal ==
    metric = "MulticlassStatScores" =>
        LET tp == SumVec(self.true_positive, self.num_classes)
            fp == SumVec(self.false_positive, self.num_classes)
            fn == SumVec(self.false_negative, self.num_classes)
        IN /\ tp + fn = self.total
           /\ tp + fp = self.total
           /\ fp = fn

\* a hit and a miss have both been counted
C28_Witness ==
    /\ metric = "MulticlassStatScores"
    /\ SumVec(self.true_positive, self.num_classes) > 0
    /\ SumVec(self.false_positive, self.num_classes) > 0

\* C29: once total > 0, MulticlassPrecision with Micro averaging and
\* MulticlassF1Score with Micro averaging both return Some of the summed true
\* positives over total; neither takes its None branch.
C29_MicroIsAccuracy ==
    (metric = "MulticlassStatScores" /\ self.total > 0) =>
        LET accuracy == Some(FDiv(F(SumVec(self.true_positive, self.num_classes)),
                                  F(self.total)))
        IN /\ MulticlassPrecisionCompute(self, "Micro") = accuracy
           /\ MulticlassF1ScoreCompute(self, "Micro") = accuracy

\* two of three counted samples were hits
C29_Witness ==
    /\ metric = "MulticlassStatScores"
    /\ self.total = 3
    /\ SumVec(self.true_positive, self.num_classes) = 2

\* C27: exact-mode AUROC does not depend on the order of the samples: every
\* permutation of the accumulated (score, label) pairs computes the same
\* value, or None, as the order they were fed in.
C27_OrderIndependent ==
    (metric = "BinaryAuroc" /\ cfg.bins = 0 /\ AllFed) =>
        LET n == Len(data)
            permutations == {p \in [1 .. n -> 1 .. n] :
                                \A i, j \in 1 .. n : p[i] = p[j] => i = j}
        IN \A p \in permutations :
            ExactAurocOf([i \in 1 .. n |-> data[p[i]]]) = BinaryAurocCompute(self)

\* C27 witness: exact mode holds a positive and a negative of the same score
\* next to a sample of a higher score
C27_Witness ==
    /\ metric = "BinaryAuroc"
    /\ cfg.bins = 0
    /\ AllFed
    /\ data = << <<Half, 0>>, <<ScoreUnit, 1>>, <<Half, 1>> >>
    /\ BinaryAurocCompute(self).tag = "Some"

\* C30: for a dataset with at least one positive and one negative sample on
\* which the bin index round(score * (bins - 1)) is injective over the
\* distinct scores present, binned AUROC equals exact AUROC.
C30_BinnedEqualsExactWhenInjective ==
    (/\ metric = "BinaryAuroc"
     /\ cfg.bins > 0
     /\ AllFed
     /\ BothLabels(data)
     /\ \A i, j \in 1 .. Len(data) :
            data[i][1] # data[j][1] => ~SameBin(data[i][1], data[j][1], cfg.bins))
    => BinaryAurocCompute(self) = ExactAurocOf(data)

\* C30 witness: five bins hold three samples of three scores, a bin each,
\* with both labels present
C30_Witness ==
    /\ metric = "BinaryAuroc"
    /\ cfg.bins = TestBins
    /\ AllFed
    /\ BothLabels(data)
    /\ Cardinality(DOMAIN self.pos_hist \cup DOMAIN self.neg_hist) = 3

\* the accumulator a single update call with the given samples leaves in a
\* freshly constructed instance
FedAtOnce(m, c, samples) ==
    LET fresh == New(m, c)
        predictions == [i \in 1 .. Len(samples) |-> samples[i][1]]
        targets == [i \in 1 .. Len(samples) |-> samples[i][2]]
    IN CASE m = "BinaryStatScores" -> BinaryStatScoresUpdate(fresh, predictions, targets).self
         [] m = "MulticlassStatScores" ->
                MulticlassStatScoresUpdate(fresh, predictions, targets).self
         [] m = "BinaryAuroc" -> BinaryAurocUpdate(fresh, predictions, targets).self

\* C24: updates are incremental for BinaryStatScores, MulticlassStatScores and
\* BinaryAuroc in both modes: feeding valid batches one after the other leaves
\* the same counters, sample list or histograms, and the same compute() of
\* every derived metric, as feeding their concatenation in a single update.
C24_BatchesConcatenate ==
    LET once == FedAtOnce(metric, cfg, SubSeq(data, 1, observed))
    IN /\ self = once
       /\ Computes(metric, self) = Computes(metric, once)

\* C24 witness: a second batch has been fed to a three-class
\* MulticlassStatScores that held two samples
C24_Witness ==
    /\ metric = "MulticlassStatScores"
    /\ cfg.num_classes = 3
    /\ call.op = "update"
    /\ call.predictions = 1
    /\ observed = 3

=============================================================================
